---- MODULE Spec2Model ----
(***************************************************************************)
(* Undo/redo state-management core of the calculator: the bounded history  *)
(* ledger (HistoryManager), the snapshot stack (MementoCaretaker) and the  *)
(* engine that keeps the two consistent (Calculator).                      *)
(*                                                                         *)
(* The specifications are:                                                 *)
(*   Spec          - a Calculator after __init__, driven by calculate,     *)
(*                   undo, redo, clear_history and load_history;           *)
(*   SpecCaretaker - a bare MementoCaretaker after __init__, driven by     *)
(*                   save, undo, redo, can_undo and can_redo;              *)
(*   SpecObservers - the Calculator of Spec with callers that register     *)
(*                   and unregister observers;                             *)
(*   SpecWindow    - the Calculator of Spec driven by calculations, undo   *)
(*                   and redo alone, past its capacity;                    *)
(*   SpecRepl      - the undo and redo commands of the REPL over a         *)
(*                   Calculator;                                           *)
(*   SpecLedger    - a bare HistoryManager after __init__, driven by       *)
(*                   add_calculation and get_recent;                       *)
(*   SpecConfig    - CalculatorConfig constructed under an environment;    *)
(*   SpecAlias     - a Calculator whose lists are objects with an          *)
(*                   identity, driven by the engine operations and by a    *)
(*                   caller that mutates the lists it was handed.          *)
(* Python lists are sequences; Python indices are 0-based, so the element  *)
(* at Python index i of list s is s[i + 1].                                *)
(***************************************************************************)
EXTENDS Integers, Sequences, FiniteSets, TLC

VARIABLES
    history,           \* HistoryManager._history
    max_history_size,  \* config.max_history_size
    mementos,          \* MementoCaretaker._mementos
    current_index,     \* MementoCaretaker._current_index
    last,              \* the last completed call and what it returned or raised
    pre,               \* what the engine looked like before that call
    added,             \* the records handed to add_calculation so far, in order
    heap,              \* the list objects of the program, by object id
    held,              \* the id of a list a caller got from get_history() or
                       \* get_state() and still holds, 0 for none
    observers,         \* Calculator._observers
    notified           \* the calls of update the last call made, in order

vars == <<history, max_history_size, mementos, current_index, last, pre,
          added, heap, held, observers, notified>>

----------------------------------------------------------------------------
(* Bounds of the model *)

MaxCapacity == 2   \* the capacities explored are 1 and MaxCapacity
MaxMementos == 3   \* length of the snapshot list
MaxRows == 2       \* rows of a history file
MaxAdds == 4       \* calls of add_calculation on a bare ledger
MaxObservers == 4   \* observers registered at a time, the two defaults included
MaxCount == 3      \* get_recent is called with counts -MaxCount..MaxCount
MaxSetting == 2    \* numeric settings range over -MaxSetting..MaxSetting
MaxHeldLen == 1    \* length up to which a caller grows a list it holds

----------------------------------------------------------------------------
(* Python list helpers *)

Min(a, b) == IF a < b THEN a ELSE b

Max(a, b) == IF a > b THEN a ELSE b

\* s[:n]
SliceTo(s, n) ==
    LET hi == IF n < 0 THEN Max(Len(s) + n, 0) ELSE Min(n, Len(s))
    IN SubSeq(s, 1, hi)

\* s[n:]
SliceFrom(s, n) ==
    LET lo == IF n < 0 THEN Max(Len(s) + n, 0) ELSE Min(n, Len(s))
    IN SubSeq(s, lo + 1, Len(s))

\* s[i], where a negative i counts from the end
Index(s, i) == IF i < 0 THEN s[Len(s) + i + 1] ELSE s[i + 1]

\* s.pop(0) leaves s[1:]
PopFront(s) == SubSeq(s, 2, Len(s))

----------------------------------------------------------------------------
(* Calculation records and the arithmetic operations *)

\* The timestamp of a Calculation is left out: no operation of the core reads
\* it, and two records of the same calculation count as the same record.
Calculation(operation, operand1, operand2, result) ==
    [operation |-> operation, operand1 |-> operand1, operand2 |-> operand2,
     result |-> result]

OperationNames ==
    {"add", "subtract", "multiply", "divide", "power", "root", "modulus",
     "int_divide", "percent", "abs_diff"}

Symbol(name) ==
    CASE name = "add" -> "+"
      [] name = "subtract" -> "-"
      [] name = "multiply" -> "*"
      [] name = "divide" -> "/"
      [] name = "power" -> "^"
      [] name = "root" -> "sqrt"   \* the radical sign in the source
      [] name = "modulus" -> "%"
      [] name = "int_divide" -> "//"
      [] name = "percent" -> "%%"
      [] name = "abs_diff" -> "|a-b|"

Ok(v) == [error |-> "none", value |-> v]

Err(kind) == [error |-> kind, value |-> 0]

Abs(x) == IF x < 0 THEN -x ELSE x

\* Python floor division and modulus (the sign of the modulus follows b).
FloorDiv(a, b) == IF b > 0 THEN a \div b ELSE (-a) \div (-b)

PyMod(a, b) == a - b * FloorDiv(a, b)

\* The non-negative r with r^b = a; the inputs of the model are perfect powers.
IntRoot(a, b) == CHOOSE r \in 0..Abs(a) : r ^ b = Abs(a)

\* Operation.execute of the operation called `name`. The inputs of the model
\* are integers whose results are integers, so float arithmetic is exact;
\* power is modelled for exponents that are not negative.
Execute(name, a, b) ==
    CASE name = "add" -> Ok(a + b)
      [] name = "subtract" -> Ok(a - b)
      [] name = "multiply" -> Ok(a * b)
      [] name = "divide" ->
            IF b = 0 THEN Err("DivisionByZeroError") ELSE Ok(FloorDiv(a, b))
      [] name = "power" -> Ok(a ^ b)
      [] name = "root" ->
            IF b = 0 THEN Err("DivisionByZeroError")
            ELSE IF a < 0 /\ PyMod(b, 2) = 0 THEN Err("OperationError")
            ELSE IF b < 0 THEN Err("OperationError")
            ELSE IF a < 0 /\ PyMod(b, 2) = 1 THEN Ok(-IntRoot(a, b))
            ELSE Ok(IntRoot(a, b))
      [] name = "modulus" ->
            IF b = 0 THEN Err("DivisionByZeroError") ELSE Ok(PyMod(a, b))
      [] name = "int_divide" ->
            IF b = 0 THEN Err("DivisionByZeroError") ELSE Ok(FloorDiv(a, b))
      [] name = "percent" ->
            IF b = 0 THEN Err("DivisionByZeroError")
            ELSE Ok(FloorDiv(a * 100, b))
      [] name = "abs_diff" -> Ok(Abs(a - b))

\* OperationFactory.create_operation followed by operation.execute.
Evaluate(name, a, b) ==
    IF name \notin OperationNames THEN Err("OperationError")
    ELSE Execute(name, a, b)

\* The calls explored: <<operation_name, operand1, operand2>>. Two of them
\* succeed and one fails for each way of failing: a division by zero, an
\* invalid domain and a name the factory does not know.
CalcInputs ==
    {<<"add", 5, 3>>, <<"multiply", 4, 5>>, <<"divide", 10, 0>>,
     <<"root", -4, 2>>, <<"bogus", 1, 1>>}

----------------------------------------------------------------------------
(* HistoryManager *)

\* add_calculation that evicts the newest record instead of the oldest
AddCalculation_PopsNewest(h, cap, calculation) ==
    LET appended == Append(h, calculation)
    IN IF Len(appended) > cap THEN SubSeq(appended, 1, Len(appended) - 1)
       ELSE appended

\* add_calculation that makes room before it appends
AddCalculation_EvictsFirst(h, cap, calculation) ==
    IF Len(h) >= cap THEN Append(PopFront(h), calculation)
    ELSE Append(h, calculation)

AddCalculation(h, cap, calculation) ==
    LET appended == Append(h, calculation)
    IN IF Len(appended) > cap THEN PopFront(appended) ELSE appended

GetHistory(h) == h

\* A row of a history file. Calculation.from_dict raises on a malformed row
\* (a missing column, a non-numeric operand, a timestamp that is no ISO date).
FileRow(k, malformed) ==
    [operation |-> "+", operand1 |-> k, operand2 |-> k, result |-> 2 * k,
     malformed |-> malformed]

FromDict(row) ==
    IF row.malformed THEN Err("ValueError")
    ELSE Ok(Calculation(row.operation, row.operand1, row.operand2, row.result))

\* What load_from_csv can find at filepath: no file, a file without any
\* content, a file pandas cannot read, or a table of rows.
\* A table has up to MaxRows rows, all well-formed or well-formed up to a
\* malformed last row (the rows after the first malformed one are never read).
Files ==
    {[kind |-> k, rows |-> <<>>] : k \in {"missing", "empty", "unreadable"}}
    \cup
    {[kind |-> "table", rows |-> [i \in 1..n |-> FileRow(i, bad /\ i = n)]] :
        n \in 0..MaxRows, bad \in BOOLEAN}

\* The loop over df.iterrows(): rows are appended one by one to the cleared
\* list until one fails to convert.
RECURSIVE LoadRows(_, _)
LoadRows(rows, acc) ==
    IF rows = <<>> THEN [history |-> acc, raised |-> "none"]
    ELSE LET c == FromDict(Head(rows))
         IN IF c.error # "none"
            THEN [history |-> acc, raised |-> "FileOperationError"]
            ELSE LoadRows(Tail(rows), Append(acc, c.value))

LoadFromCsv(h, file) ==
    CASE file.kind = "missing" -> [history |-> h, raised |-> "none"]
      [] file.kind = "empty" -> [history |-> h, raised |-> "none"]
      [] file.kind = "unreadable" -> [history |-> h, raised |-> "FileOperationError"]
      [] file.kind = "table" -> LoadRows(file.rows, <<>>)

----------------------------------------------------------------------------
(* CalculatorMemento and MementoCaretaker *)

CalculatorMemento(state) == [state |-> state]

GetState(memento) == memento.state

\* save that drops only the memento right after the cursor
CaretakerSave_DropsNextOnly(ms, idx, memento) ==
    LET saved == Append(SliceTo(ms, idx + 1) \o SliceFrom(ms, idx + 2), memento)
    IN [mementos |-> saved, current_index |-> Len(saved) - 1]

\* save that inserts after the cursor without dropping the redo branch
CaretakerSave_KeepsBranch(ms, idx, memento) ==
    [mementos |-> SliceTo(ms, idx + 1) \o <<memento>> \o SliceFrom(ms, idx + 1),
     current_index |-> idx + 1]

\* save of a bounded snapshot list: beyond two snapshots the oldest is dropped
CaretakerSave_DropsOldest(ms, idx, memento) ==
    LET saved == Append(SliceTo(ms, idx + 1), memento)
        kept == IF Len(saved) > 2 THEN Tail(saved) ELSE saved
    IN [mementos |-> kept, current_index |-> Len(kept) - 1]

CaretakerSave(ms, idx, memento) ==
    LET saved == Append(SliceTo(ms, idx + 1), memento)
    IN [mementos |-> saved, current_index |-> Len(saved) - 1]

\* undo whose guard lets the cursor leave the first memento
CaretakerUndo_FromZero(ms, idx) ==
    IF idx >= 0
    THEN [current_index |-> idx - 1, memento |-> <<Index(ms, idx - 1)>>]
    ELSE [current_index |-> idx, memento |-> <<>>]

\* undo that steps back over two mementos where it can
CaretakerUndo_SkipsOne(ms, idx) ==
    IF idx > 0
    THEN [current_index |-> Max(idx - 2, 0), memento |-> <<Index(ms, Max(idx - 2, 0))>>]
    ELSE [current_index |-> idx, memento |-> <<>>]

\* The returned memento is <<m>>, and <<>> stands for None.
CaretakerUndo(ms, idx) ==
    IF idx > 0
    THEN [current_index |-> idx - 1, memento |-> <<Index(ms, idx - 1)>>]
    ELSE [current_index |-> idx, memento |-> <<>>]

\* redo that returns the memento it leaves, not the one it reaches
CaretakerRedo_StaleMemento(ms, idx) ==
    IF idx < Len(ms) - 1
    THEN [current_index |-> idx + 1, memento |-> <<Index(ms, idx)>>]
    ELSE [current_index |-> idx, memento |-> <<>>]

\* redo that jumps to the newest memento
CaretakerRedo_ToNewest(ms, idx) ==
    IF idx < Len(ms) - 1
    THEN [current_index |-> Len(ms) - 1, memento |-> <<Index(ms, Len(ms) - 1)>>]
    ELSE [current_index |-> idx, memento |-> <<>>]

CaretakerRedo(ms, idx) ==
    IF idx < Len(ms) - 1
    THEN [current_index |-> idx + 1, memento |-> <<Index(ms, idx + 1)>>]
    ELSE [current_index |-> idx, memento |-> <<>>]

\* can_undo that also answers yes on the first memento
CanUndo_FromZero(idx) == idx >= 0

\* can_undo that answers no one memento too early
CanUndo_FromOne(idx) == idx > 1

CanUndo(idx) == idx > 0

CanRedo(ms, idx) == idx < Len(ms) - 1

----------------------------------------------------------------------------
(* Bookkeeping of the last call *)

Call(op, ret, result, raised, memento) ==
    [op |-> op, ret |-> ret, result |-> result, raised |-> raised,
     memento |-> memento]

\* The part of the state before a call that later states are compared with.
Before(h, ms, idx) ==
    [history |-> h, length |-> Len(ms), current_index |-> idx]

Snapshot == Before(history, mementos, current_index)

----------------------------------------------------------------------------
(* Calculator *)

\* The observers: the two every Calculator registers, which log and save and
\* do not raise, an observer of a caller whose update returns and one whose
\* update raises.
DefaultObservers == <<"LoggingObserver", "AutoSaveObserver">>

CallerObservers == {"Observer", "FaultyObserver"}

Update(observer, calculation) ==
    IF observer = "FaultyObserver" THEN Err("Exception") ELSE Ok(0)

\* A call of update: who was called, with which record, and what the history
\* and the snapshot list were at that moment.
UpdateCall(observer, calculation, h, ms) ==
    [observer |-> observer, calculation |-> calculation, history |-> h,
     snapshots |-> Len(ms)]

\* _notify_observers without the try/except around update
RECURSIVE NotifyObservers_NoCatch(_, _, _, _, _)
NotifyObservers_NoCatch(obs, calculation, h, ms, calls) ==
    IF obs = <<>> THEN [notified |-> calls, raised |-> "none"]
    ELSE LET made == Append(calls, UpdateCall(Head(obs), calculation, h, ms))
             u == Update(Head(obs), calculation)
         IN IF u.error # "none" THEN [notified |-> made, raised |-> u.error]
            ELSE NotifyObservers_NoCatch(Tail(obs), calculation, h, ms, made)

\* _notify_observers: update is called on each observer in turn, and what an
\* update raises is logged and dropped.
RECURSIVE NotifyObservers(_, _, _, _, _)
NotifyObservers(obs, calculation, h, ms, calls) ==
    IF obs = <<>> THEN [notified |-> calls, raised |-> "none"]
    ELSE LET made == Append(calls, UpdateCall(Head(obs), calculation, h, ms))
         IN NotifyObservers(Tail(obs), calculation, h, ms, made)

\* round(result, config.precision): the results of the model are integers,
\* which rounding to a non-negative number of decimals leaves as they are.
Round(result) == result

SaveState(h, ms, idx) == CaretakerSave(ms, idx, CalculatorMemento(GetHistory(h)))

\* a constructor that forgets to save the initial state
Init_NoSnapshot ==
    /\ max_history_size \in {1, MaxCapacity}
    /\ history = <<>>
    /\ mementos = <<>>
    /\ current_index = -1
    /\ last = Call("__init__", FALSE, 0, "none", <<>>)
    /\ pre = Before(<<>>, <<>>, -1)
    /\ added = <<>>
    /\ heap = <<>>
    /\ held = 0
    /\ observers = DefaultObservers
    /\ notified = <<>>

Init ==
    /\ max_history_size \in {1, MaxCapacity}
    /\ history = <<>>
    /\ mementos = SaveState(<<>>, <<>>, -1).mementos
    /\ current_index = SaveState(<<>>, <<>>, -1).current_index
    /\ last = Call("__init__", FALSE, 0, "none", <<>>)
    /\ pre = Before(<<>>, <<>>, -1)
    /\ added = <<>>
    /\ heap = <<>>
    /\ held = 0
    /\ observers = DefaultObservers
    /\ notified = <<>>

\* calculate that pushes a snapshot before the operation is evaluated
Calculate_SavesFirst(name, a, b) ==
    LET r == Evaluate(name, a, b)
        calculation == Calculation(Symbol(name), a, b, Round(r.value))
        h == IF r.error # "none" THEN history
             ELSE AddCalculation(history, max_history_size, calculation)
        s == SaveState(h, mementos, current_index)
        n == NotifyObservers(observers, calculation, h, s.mementos, <<>>)
    IN /\ pre' = Snapshot
       /\ UNCHANGED <<added, heap, held, observers>>
       /\ UNCHANGED max_history_size
       /\ current_index + 2 <= MaxMementos
       /\ history' = h
       /\ mementos' = s.mementos
       /\ current_index' = s.current_index
       /\ notified' = IF r.error # "none" THEN <<>> ELSE n.notified
       /\ last' = Call("calculate", FALSE,
                       IF r.error # "none" THEN 0 ELSE Round(r.value), r.error, <<>>)

\* calculate that notifies the observers before the record is added and the
\* snapshot pushed
Calculate_NotifiesFirst(name, a, b) ==
    LET r == Evaluate(name, a, b)
        calculation == Calculation(Symbol(name), a, b, Round(r.value))
        n == NotifyObservers(observers, calculation, history, mementos, <<>>)
        h == AddCalculation(history, max_history_size, calculation)
        s == SaveState(h, mementos, current_index)
    IN /\ pre' = Snapshot
       /\ UNCHANGED <<added, heap, held, observers>>
       /\ UNCHANGED max_history_size
       /\ IF r.error # "none"
          THEN /\ last' = Call("calculate", FALSE, 0, r.error, <<>>)
               /\ notified' = <<>>
               /\ UNCHANGED <<history, mementos, current_index>>
          ELSE /\ current_index + 2 <= MaxMementos
               /\ history' = h
               /\ mementos' = s.mementos
               /\ current_index' = s.current_index
               /\ notified' = n.notified
               /\ last' = IF n.raised # "none"
                          THEN Call("calculate", FALSE, 0, n.raised, <<>>)
                          ELSE Call("calculate", FALSE, Round(r.value), "none", <<>>)

\* calculate, explored while the snapshot list stays within limit snapshots
CalculateWithin(limit, name, a, b) ==
    LET r == Evaluate(name, a, b)
        calculation == Calculation(Symbol(name), a, b, Round(r.value))
        h == AddCalculation(history, max_history_size, calculation)
        s == SaveState(h, mementos, current_index)
        n == NotifyObservers(observers, calculation, h, s.mementos, <<>>)
    IN /\ pre' = Snapshot
       /\ UNCHANGED <<added, heap, held, observers>>
       /\ UNCHANGED max_history_size
       /\ IF r.error # "none"
          THEN /\ last' = Call("calculate", FALSE, 0, r.error, <<>>)
               /\ notified' = <<>>
               /\ UNCHANGED <<history, mementos, current_index>>
          ELSE /\ current_index + 2 <= limit
               /\ history' = h
               /\ mementos' = s.mementos
               /\ current_index' = s.current_index
               /\ notified' = n.notified
               /\ last' = IF n.raised # "none"
                          THEN Call("calculate", FALSE, 0, n.raised, <<>>)
                          ELSE Call("calculate", FALSE, Round(r.value), "none", <<>>)

Calculate(name, a, b) == CalculateWithin(MaxMementos, name, a, b)

\* undo that moves the cursor and leaves the history as it is when the
\* history is full
Undo_KeepsFullHistory ==
    /\ pre' = Snapshot
    /\ UNCHANGED <<added, heap, held, observers>>
    /\ notified' = <<>>
    /\ UNCHANGED <<max_history_size, mementos>>
    /\ IF ~CanUndo(current_index)
       THEN /\ last' = Call("undo", FALSE, 0, "none", <<>>)
            /\ UNCHANGED <<history, current_index>>
       ELSE LET u == CaretakerUndo(mementos, current_index)
            IN /\ current_index' = u.current_index
               /\ history' = IF Len(history) >= max_history_size THEN history
                             ELSE GetState(u.memento[1])
               /\ last' = Call("undo", TRUE, 0, "none", u.memento)

\* undo without either guard: the cursor steps back from the first memento
Undo_Unguarded ==
    LET u == [current_index |-> current_index - 1,
              memento |-> <<Index(mementos, current_index - 1)>>]
    IN /\ pre' = Snapshot
       /\ UNCHANGED <<added, heap, held, observers>>
       /\ notified' = <<>>
       /\ UNCHANGED <<max_history_size, mementos>>
       /\ current_index' = IF u.current_index < 0 THEN Len(mementos) - 1
                           ELSE u.current_index
       /\ history' = GetState(u.memento[1])
       /\ last' = Call("undo", TRUE, 0, "none", u.memento)

\* undo that moves the cursor and forgets to restore the history
Undo_KeepsHistory ==
    /\ pre' = Snapshot
    /\ UNCHANGED <<added, heap, held, observers>>
    /\ notified' = <<>>
    /\ UNCHANGED <<max_history_size, mementos, history>>
    /\ IF ~CanUndo(current_index)
       THEN /\ last' = Call("undo", FALSE, 0, "none", <<>>)
            /\ UNCHANGED current_index
       ELSE LET u == CaretakerUndo(mementos, current_index)
            IN /\ current_index' = u.current_index
               /\ last' = Call("undo", TRUE, 0, "none", u.memento)

Undo ==
    /\ pre' = Snapshot
    /\ UNCHANGED <<added, heap, held, observers>>
    /\ notified' = <<>>
    /\ UNCHANGED <<max_history_size, mementos>>
    /\ IF ~CanUndo(current_index)
       THEN /\ last' = Call("undo", FALSE, 0, "none", <<>>)
            /\ UNCHANGED <<history, current_index>>
       ELSE LET u == CaretakerUndo(mementos, current_index)
            IN /\ current_index' = u.current_index
               /\ IF u.memento # <<>>
                  THEN /\ history' = GetState(u.memento[1])
                       /\ last' = Call("undo", TRUE, 0, "none", u.memento)
                  ELSE /\ UNCHANGED history
                       /\ last' = Call("undo", FALSE, 0, "none", <<>>)

\* redo whose guards are off by one: at the last memento it "redoes" it again
Redo_OffByOne ==
    LET idx == IF current_index < Len(mementos) - 1 THEN current_index + 1
               ELSE current_index
        memento == Index(mementos, idx)
    IN /\ pre' = Snapshot
       /\ UNCHANGED <<added, heap, held, observers>>
       /\ notified' = <<>>
       /\ UNCHANGED <<max_history_size, mementos>>
       /\ current_index' = idx
       /\ history' = GetState(memento)
       /\ last' = Call("redo", TRUE, 0, "none", <<memento>>)

Redo ==
    /\ pre' = Snapshot
    /\ UNCHANGED <<added, heap, held, observers>>
    /\ notified' = <<>>
    /\ UNCHANGED <<max_history_size, mementos>>
    /\ IF ~CanRedo(mementos, current_index)
       THEN /\ last' = Call("redo", FALSE, 0, "none", <<>>)
            /\ UNCHANGED <<history, current_index>>
       ELSE LET u == CaretakerRedo(mementos, current_index)
            IN /\ current_index' = u.current_index
               /\ IF u.memento # <<>>
                  THEN /\ history' = GetState(u.memento[1])
                       /\ last' = Call("redo", TRUE, 0, "none", u.memento)
                  ELSE /\ UNCHANGED history
                       /\ last' = Call("redo", FALSE, 0, "none", <<>>)

\* clear_history that empties the ledger without saving the state
ClearHistory_NoSnapshot ==
    /\ current_index + 2 <= MaxMementos
    /\ pre' = Snapshot
    /\ UNCHANGED <<added, heap, held, observers>>
    /\ notified' = <<>>
    /\ history' = <<>>
    /\ last' = Call("clear_history", FALSE, 0, "none", <<>>)
    /\ UNCHANGED <<max_history_size, mementos, current_index>>

ClearHistory ==
    LET s == SaveState(<<>>, mementos, current_index)
    IN /\ current_index + 2 <= MaxMementos
       /\ pre' = Snapshot
       /\ UNCHANGED <<added, heap, held, observers>>
       /\ notified' = <<>>
       /\ history' = <<>>
       /\ mementos' = s.mementos
       /\ current_index' = s.current_index
       /\ last' = Call("clear_history", FALSE, 0, "none", <<>>)
       /\ UNCHANGED max_history_size

\* load_history that saves the state whether or not the load raised
LoadHistory_SavesAnyway(file) ==
    LET l == LoadFromCsv(history, file)
        s == SaveState(l.history, mementos, current_index)
    IN /\ pre' = Snapshot
       /\ UNCHANGED <<added, heap, held, observers>>
       /\ notified' = <<>>
       /\ history' = l.history
       /\ last' = Call("load_history", FALSE, 0, l.raised, <<>>)
       /\ UNCHANGED max_history_size
       /\ current_index + 2 <= MaxMementos
       /\ mementos' = s.mementos
       /\ current_index' = s.current_index

LoadHistory(file) ==
    LET l == LoadFromCsv(history, file)
        s == SaveState(l.history, mementos, current_index)
    IN /\ pre' = Snapshot
       /\ UNCHANGED <<added, heap, held, observers>>
       /\ notified' = <<>>
       /\ history' = l.history
       /\ last' = Call("load_history", FALSE, 0, l.raised, <<>>)
       /\ UNCHANGED max_history_size
       /\ IF l.raised # "none"
          THEN UNCHANGED <<mementos, current_index>>
          ELSE /\ current_index + 2 <= MaxMementos
               /\ mementos' = s.mementos
               /\ current_index' = s.current_index

Next ==
    \/ \E c \in CalcInputs : Calculate(c[1], c[2], c[3])
    \/ Undo
    \/ Redo
    \/ ClearHistory
    \/ \E f \in Files : LoadHistory(f)

Spec == Init /\ [][Next]_vars

-----------------------------------------------------------------------------
(* Calculator with callers that register and unregister observers *)

\* list.remove: the first element equal to x goes
RECURSIVE Remove(_, _)
Remove(s, x) ==
    IF s = <<>> THEN <<>>
    ELSE IF Head(s) = x THEN Tail(s)
    ELSE <<Head(s)>> \o Remove(Tail(s), x)

InitObservers ==
    /\ Init
    /\ max_history_size = 1

RegisterObserver(observer) ==
    /\ Len(observers) < MaxObservers
    /\ observers' = Append(observers, observer)
    /\ notified' = <<>>
    /\ pre' = Snapshot
    /\ last' = Call("register_observer", FALSE, 0, "none", <<>>)
    /\ UNCHANGED <<history, max_history_size, mementos, current_index, added,
                   heap, held>>

UnregisterObserver(observer) ==
    /\ observers' = IF \E i \in DOMAIN observers : observers[i] = observer
                    THEN Remove(observers, observer) ELSE observers
    /\ notified' = <<>>
    /\ pre' = Snapshot
    /\ last' = Call("unregister_observer", FALSE, 0, "none", <<>>)
    /\ UNCHANGED <<history, max_history_size, mementos, current_index, added,
                   heap, held>>

\* The calls explored with observers: one calculation that succeeds and one
\* that fails, one file of a single readable row and one of a single
\* malformed row.
ObserverCalcInputs == {<<"add", 5, 3>>, <<"divide", 10, 0>>}

ObserverFiles == {f \in Files : f.kind = "table" /\ Len(f.rows) = 1}

NextObservers ==
    \/ \E c \in ObserverCalcInputs : Calculate(c[1], c[2], c[3])
    \/ Undo
    \/ Redo
    \/ ClearHistory
    \/ \E f \in ObserverFiles : LoadHistory(f)
    \/ \E o \in CallerObservers : RegisterObserver(o)
    \/ \E o \in CallerObservers : UnregisterObserver(o)

SpecObservers == InitObservers /\ [][NextObservers]_vars

-----------------------------------------------------------------------------
(* Calculator driven past its capacity by calculations alone *)

\* A fresh engine, of capacity 1 or MaxCapacity.
InitWindow == Init

\* Calculations that succeed, with different records.
WindowCalcInputs == {<<"add", 5, 3>>, <<"multiply", 4, 5>>}

\* Calculations, two more than the largest capacity at most in one branch,
\* undo and redo.
NextWindow ==
    \/ \E c \in WindowCalcInputs :
          CalculateWithin(MaxCapacity + 3, c[1], c[2], c[3])
    \/ Undo
    \/ Redo

SpecWindow == InitWindow /\ [][NextWindow]_vars

----------------------------------------------------------------------------
(* A bare MementoCaretaker *)

\* The record lists a caller may wrap in a memento.
SnapshotStates ==
    {<<>>,
     <<Calculation("+", 1, 2, 3)>>,
     <<Calculation("+", 1, 2, 3), Calculation("-", 5, 3, 2)>>}

InitCaretaker ==
    /\ max_history_size = 1
    /\ history = <<>>
    /\ mementos = <<>>
    /\ current_index = -1
    /\ last = Call("__init__", FALSE, 0, "none", <<>>)
    /\ pre = Before(<<>>, <<>>, -1)
    /\ added = <<>>
    /\ heap = <<>>
    /\ held = 0
    /\ observers = <<>>
    /\ notified = <<>>

Save(memento) ==
    LET s == CaretakerSave(mementos, current_index, memento)
    IN /\ current_index + 2 <= MaxMementos
       /\ pre' = Snapshot
       /\ UNCHANGED <<added, heap, held, observers, notified>>
       /\ mementos' = s.mementos
       /\ current_index' = s.current_index
       /\ last' = Call("save", FALSE, 0, "none", <<memento>>)
       /\ UNCHANGED <<history, max_history_size>>

CtUndo ==
    LET u == CaretakerUndo(mementos, current_index)
    IN /\ pre' = Snapshot
       /\ UNCHANGED <<added, heap, held, observers, notified>>
       /\ current_index' = u.current_index
       /\ last' = Call("caretaker.undo", u.memento # <<>>, 0, "none", u.memento)
       /\ UNCHANGED <<history, max_history_size, mementos>>

CtRedo ==
    LET u == CaretakerRedo(mementos, current_index)
    IN /\ pre' = Snapshot
       /\ UNCHANGED <<added, heap, held, observers, notified>>
       /\ current_index' = u.current_index
       /\ last' = Call("caretaker.redo", u.memento # <<>>, 0, "none", u.memento)
       /\ UNCHANGED <<history, max_history_size, mementos>>

CtCanUndo ==
    /\ pre' = Snapshot
    /\ UNCHANGED <<added, heap, held, observers, notified>>
    /\ last' = Call("can_undo", CanUndo(current_index), 0, "none", <<>>)
    /\ UNCHANGED <<history, max_history_size, mementos, current_index>>

CtCanRedo ==
    /\ pre' = Snapshot
    /\ UNCHANGED <<added, heap, held, observers, notified>>
    /\ last' = Call("can_redo", CanRedo(mementos, current_index), 0, "none", <<>>)
    /\ UNCHANGED <<history, max_history_size, mementos, current_index>>

NextCaretaker ==
    \/ \E st \in SnapshotStates : Save(CalculatorMemento(st))
    \/ CtUndo
    \/ CtRedo
    \/ CtCanUndo
    \/ CtCanRedo

SpecCaretaker == InitCaretaker /\ [][NextCaretaker]_vars

----------------------------------------------------------------------------
(* A bare HistoryManager *)

\* Python's None where a Calculation is expected: a value that is no record
\* of a calculation.
None == [operation |-> "None", operand1 |-> 0, operand2 |-> 0, result |-> 0]

\* What a caller may hand to add_calculation.
LedgerArgs == {Calculation("+", k, 1, k + 1) : k \in 0..1} \cup {None}

\* The capacity of a bare ledger is whatever config.max_history_size holds,
\* 0 included.
InitLedger ==
    /\ max_history_size \in 0..MaxCapacity
    /\ history = <<>>
    /\ mementos = <<>>
    /\ current_index = -1
    /\ last = Call("__init__", FALSE, 0, "none", <<>>)
    /\ pre = Before(<<>>, <<>>, -1)
    /\ added = <<>>
    /\ heap = <<>>
    /\ held = 0
    /\ observers = <<>>
    /\ notified = <<>>

AddCalculationCall(calculation) ==
    /\ Len(added) < MaxAdds
    /\ pre' = Snapshot
    /\ history' = AddCalculation(history, max_history_size, calculation)
    /\ added' = Append(added, calculation)
    /\ last' = Call("add_calculation", FALSE, 0, "none", <<>>)
    /\ UNCHANGED <<max_history_size, mementos, current_index, heap, held, observers, notified>>

\* get_recent that slices from the front
GetRecent_FromFront(h, count) == IF h # <<>> THEN SliceTo(h, count) ELSE <<>>

\* self._history[-count:] if self._history else []
GetRecent(h, count) == IF h # <<>> THEN SliceFrom(h, -count) ELSE <<>>

\* A completed get_recent(count) and the list it returned.
RecentCall(count, ret) ==
    [op |-> "get_recent", ret |-> ret, result |-> 0, raised |-> "none",
     memento |-> <<>>, count |-> count]

GetRecentCall(count) ==
    /\ pre' = Snapshot
    /\ last' = RecentCall(count, GetRecent(history, count))
    /\ UNCHANGED <<history, max_history_size, mementos, current_index, added,
                   heap, held, observers, notified>>

NextLedger ==
    \/ \E calculation \in LedgerArgs : AddCalculationCall(calculation)
    \/ \E count \in -MaxCount..MaxCount : GetRecentCall(count)

SpecLedger == InitLedger /\ [][NextLedger]_vars

----------------------------------------------------------------------------
(* CalculatorConfig *)

DefaultMaxHistorySize == 100

DefaultPrecision == 10

\* 1e10 in the source; the model keeps the default within 32-bit integers,
\* and validate only asks whether the value is positive.
DefaultMaxInputValue == 10 ^ 9

\* What os.getenv finds for a key: nothing, text that is no number, or a
\* number.
EnvValues ==
    {[kind |-> "unset", value |-> 0], [kind |-> "invalid", value |-> 0]}
    \cup {[kind |-> "number", value |-> v] : v \in -MaxSetting..MaxSetting}

\* _safe_int_getenv and _safe_float_getenv
SafeGetenv(env, default) ==
    CASE env.kind = "unset" -> Ok(default)
      [] env.kind = "invalid" -> Err("ConfigurationError")
      [] env.kind = "number" -> Ok(env.value)

\* validate that also refuses a precision of 0
Validate_PositivePrecision(maxHistorySize, precision, maxInputValue) ==
    IF maxHistorySize < 1 THEN "ConfigurationError"
    ELSE IF precision <= 0 THEN "ConfigurationError"
    ELSE IF maxInputValue <= 0 THEN "ConfigurationError"
    ELSE "none"

Validate(maxHistorySize, precision, maxInputValue) ==
    IF maxHistorySize < 1 THEN "ConfigurationError"
    ELSE IF precision < 0 THEN "ConfigurationError"
    ELSE IF maxInputValue <= 0 THEN "ConfigurationError"
    ELSE "none"

\* CalculatorConfig(): load_configuration reads the three settings in this
\* order and stops at the first that is no number, then validate runs.
NewConfig(envSize, envPrecision, envInput) ==
    LET size == SafeGetenv(envSize, DefaultMaxHistorySize)
        precision == SafeGetenv(envPrecision, DefaultPrecision)
        input == SafeGetenv(envInput, DefaultMaxInputValue)
        loaded == /\ size.error = "none"
                  /\ precision.error = "none"
                  /\ input.error = "none"
    IN [op |-> "CalculatorConfig", ret |-> FALSE, result |-> 0, memento |-> <<>>,
        loaded |-> loaded,
        max_history_size |-> size.value,
        precision |-> precision.value,
        max_input_value |-> input.value,
        raised |-> IF ~loaded THEN "ConfigurationError"
                   ELSE Validate(size.value, precision.value, input.value)]

InitConfig ==
    /\ max_history_size = DefaultMaxHistorySize
    /\ history = <<>>
    /\ mementos = <<>>
    /\ current_index = -1
    /\ last = Call("__init__", FALSE, 0, "none", <<>>)
    /\ pre = Before(<<>>, <<>>, -1)
    /\ added = <<>>
    /\ heap = <<>>
    /\ held = 0
    /\ observers = <<>>
    /\ notified = <<>>

\* A configuration is constructed under some environment; the one that is
\* constructed without an error is the one in force.
CalculatorConfigCall(envSize, envPrecision, envInput) ==
    /\ last' = NewConfig(envSize, envPrecision, envInput)
    /\ max_history_size' = IF last'.raised = "none" THEN last'.max_history_size
                           ELSE max_history_size
    /\ UNCHANGED <<history, mementos, current_index, pre, added, heap, held, observers, notified>>

NextConfig ==
    \E envSize \in EnvValues, envPrecision \in EnvValues, envInput \in EnvValues :
        CalculatorConfigCall(envSize, envPrecision, envInput)

SpecConfig == InitConfig /\ [][NextConfig]_vars

----------------------------------------------------------------------------
(* A Calculator whose lists are objects *)

\* In SpecAlias a Python list is an object on the heap: heap[id] is the
\* content of the list with that id, history is the id of
\* HistoryManager._history and the state of a memento is the id of its _state
\* list. Two references to the same id are aliases: a change made through one
\* shows through the other.

\* list.copy(): a new object with the same content
ListCopy(hp, id) == [heap |-> Append(hp, hp[id]), ref |-> Len(hp) + 1]

\* get_history that hands out the ledger's own list
GetHistoryRef_NoCopy(hp, h) == [heap |-> hp, ref |-> h]

GetHistoryRef(hp, h) == ListCopy(hp, h)

\* CalculatorMemento(state): the memento keeps a copy of the list it is given
MementoRef(hp, state) ==
    LET c == ListCopy(hp, state)
    IN [heap |-> c.heap, memento |-> CalculatorMemento(c.ref)]

\* get_state that hands out the memento's own list
GetStateRef_NoCopy(hp, memento) == [heap |-> hp, ref |-> memento.state]

GetStateRef(hp, memento) == ListCopy(hp, memento.state)

SaveStateRef(hp, h, ms, idx) ==
    LET g == GetHistoryRef(hp, h)
        m == MementoRef(g.heap, g.ref)
        s == CaretakerSave(ms, idx, m.memento)
    IN [heap |-> m.heap, mementos |-> s.mementos, current_index |-> s.current_index]

\* The objects something still refers to; the others are freed, and the ids
\* are renumbered in the order of the old ones.
Live(h, ms, hd) ==
    {h} \cup {ms[i].state : i \in 1..Len(ms)} \cup (IF hd = 0 THEN {} ELSE {hd})

Rank(live, id) == Cardinality({j \in live : j <= id})

Collect(hp, h, ms, hd) ==
    LET live == Live(h, ms, hd)
    IN [heap |-> [k \in 1..Cardinality(live) |->
                    hp[CHOOSE id \in live : Rank(live, id) = k]],
        history |-> Rank(live, h),
        mementos |-> [i \in 1..Len(ms) |-> CalculatorMemento(Rank(live, ms[i].state))],
        held |-> IF hd = 0 THEN 0 ELSE Rank(live, hd)]

\* The heap and the references after a step, once the garbage is collected.
Becomes(hp, h, ms, idx, hd) ==
    LET c == Collect(hp, h, ms, hd)
    IN /\ heap' = c.heap
       /\ history' = c.history
       /\ mementos' = c.mementos
       /\ current_index' = idx
       /\ held' = c.held

InitAlias ==
    LET s == SaveStateRef(<< <<>> >>, 1, <<>>, -1)
        c == Collect(s.heap, 1, s.mementos, 0)
    IN /\ max_history_size = 1
       /\ heap = c.heap
       /\ history = c.history
       /\ mementos = c.mementos
       /\ current_index = s.current_index
       /\ held = 0
       /\ observers = DefaultObservers
       /\ notified = <<>>
       /\ last = Call("__init__", FALSE, 0, "none", <<>>)
       /\ pre = Before(<<>>, <<>>, -1)
       /\ added = <<>>

CalculateRef(name, a, b) ==
    LET r == Evaluate(name, a, b)
        calculation == Calculation(Symbol(name), a, b, Round(r.value))
        hp == [heap EXCEPT ![history] =
                  AddCalculation(heap[history], max_history_size, calculation)]
        s == SaveStateRef(hp, history, mementos, current_index)
    IN /\ UNCHANGED <<max_history_size, pre, added, observers, notified>>
       /\ IF r.error # "none"
          THEN /\ last' = Call("calculate", FALSE, 0, r.error, <<>>)
               /\ UNCHANGED <<heap, history, mementos, current_index, held>>
          ELSE /\ current_index + 2 <= MaxMementos
               /\ Becomes(s.heap, history, s.mementos, s.current_index, held)
               /\ last' = Call("calculate", FALSE, Round(r.value), "none", <<>>)

UndoRef ==
    /\ UNCHANGED <<max_history_size, pre, added, observers, notified>>
    /\ IF ~CanUndo(current_index)
       THEN /\ last' = Call("undo", FALSE, 0, "none", <<>>)
            /\ UNCHANGED <<heap, history, mementos, current_index, held>>
       ELSE LET u == CaretakerUndo(mementos, current_index)
                g == GetStateRef(heap, u.memento[1])
            IN /\ Becomes(g.heap, g.ref, mementos, u.current_index, held)
               /\ last' = Call("undo", TRUE, 0, "none", <<>>)

RedoRef ==
    /\ UNCHANGED <<max_history_size, pre, added, observers, notified>>
    /\ IF ~CanRedo(mementos, current_index)
       THEN /\ last' = Call("redo", FALSE, 0, "none", <<>>)
            /\ UNCHANGED <<heap, history, mementos, current_index, held>>
       ELSE LET u == CaretakerRedo(mementos, current_index)
                g == GetStateRef(heap, u.memento[1])
            IN /\ Becomes(g.heap, g.ref, mementos, u.current_index, held)
               /\ last' = Call("redo", TRUE, 0, "none", <<>>)

\* self._history.clear() empties the ledger's list in place.
ClearHistoryRef ==
    LET hp == [heap EXCEPT ![history] = <<>>]
        s == SaveStateRef(hp, history, mementos, current_index)
    IN /\ current_index + 2 <= MaxMementos
       /\ UNCHANGED <<max_history_size, pre, added, observers, notified>>
       /\ Becomes(s.heap, history, s.mementos, s.current_index, held)
       /\ last' = Call("clear_history", FALSE, 0, "none", <<>>)

\* load_from_csv clears the ledger's list and appends to it in place.
LoadHistoryRef(file) ==
    LET l == LoadFromCsv(heap[history], file)
        hp == [heap EXCEPT ![history] = l.history]
        s == SaveStateRef(hp, history, mementos, current_index)
    IN /\ UNCHANGED <<max_history_size, pre, added, observers, notified>>
       /\ last' = Call("load_history", FALSE, 0, l.raised, <<>>)
       /\ IF l.raised # "none"
          THEN Becomes(hp, history, mementos, current_index, held)
          ELSE /\ current_index + 2 <= MaxMementos
               /\ Becomes(s.heap, history, s.mementos, s.current_index, held)

\* A caller keeps the list that get_history() returned.
CallerGetHistory ==
    LET g == GetHistoryRef(heap, history)
    IN /\ UNCHANGED <<max_history_size, pre, added, observers, notified>>
       /\ Becomes(g.heap, history, mementos, current_index, g.ref)
       /\ last' = Call("get_history", FALSE, 0, "none", <<>>)

\* A caller keeps the list that get_state() of a stored memento returned.
CallerGetState(i) ==
    LET g == GetStateRef(heap, mementos[i])
    IN /\ UNCHANGED <<max_history_size, pre, added, observers, notified>>
       /\ Becomes(g.heap, history, mementos, current_index, g.ref)
       /\ last' = Call("get_state", FALSE, 0, "none", <<>>)

\* What a caller puts into a list that should hold calculations.
Junk == [operation |-> "not a calculation", operand1 |-> 0, operand2 |-> 0,
         result |-> 0]

Reverse(s) == [i \in 1..Len(s) |-> s[Len(s) - i + 1]]

\* list.append(x), list.pop(0) and list.reverse() on a list
ListMutations(s) ==
    (IF Len(s) < MaxHeldLen THEN {Append(s, Junk)} ELSE {})
    \cup (IF s # <<>> THEN {PopFront(s)} ELSE {})
    \cup (IF Reverse(s) # s THEN {Reverse(s)} ELSE {})

\* The caller changes the list it holds.
CallerMutate ==
    /\ held # 0
    /\ \E s \in ListMutations(heap[held]) : heap' = [heap EXCEPT ![held] = s]
    /\ last' = Call("caller.mutate", FALSE, 0, "none", <<>>)
    /\ UNCHANGED <<history, max_history_size, mementos, current_index, held,
                   pre, added, observers, notified>>

\* The calls of the engine explored on the heap and the files it loads: one
\* calculation that succeeds and one that fails, one file of a single
\* well-formed row and one of a single malformed row.
AliasCalcInputs == {<<"add", 5, 3>>, <<"divide", 10, 0>>}

AliasFiles == {f \in Files : f.kind = "table" /\ Len(f.rows) = 1}

NextAlias ==
    \/ \E c \in AliasCalcInputs : CalculateRef(c[1], c[2], c[3])
    \/ UndoRef
    \/ RedoRef
    \/ ClearHistoryRef
    \/ \E f \in AliasFiles : LoadHistoryRef(f)
    \/ CallerGetHistory
    \/ \E i \in 1..Len(mementos) : CallerGetState(i)
    \/ CallerMutate

SpecAlias == InitAlias /\ [][NextAlias]_vars

----------------------------------------------------------------------------
(* Properties of the engine, of the caretaker and of the ledger *)

Mutating == {"calculate", "clear_history", "load_history"}

Succeeded(call) == call.raised = "none"

\* C1: after every call the length of get_history() is at most the capacity.
C1_HistoryWithinCapacity == Len(GetHistory(history)) <= max_history_size

\* C2: save(m) keeps the mementos up to and including the cursor, unchanged
\* and in order, discards every memento beyond it, appends m and moves the
\* cursor to the new last index.
C2_SaveTruncatesThenAppends ==
    [][last'.op = "save" =>
          /\ Len(mementos') = current_index + 2
          /\ \A i \in 1..(current_index + 1) : mementos'[i] = mementos[i]
          /\ mementos'[Len(mementos')] = last'.memento[1]
          /\ current_index' = Len(mementos') - 1]_vars

\* A save that discarded two mementos beyond the cursor.
C2_Witness ==
    /\ last.op = "save"
    /\ pre.length - (pre.current_index + 1) >= 2
    /\ pre.current_index >= 0

\* C3: right after a calculate, clear_history or load_history that did not
\* raise, can_redo() is false and a redo() returns False.
C3_NoRedoAfterMutation ==
    [][/\ (last'.op \in Mutating /\ Succeeded(last'))
            => ~CanRedo(mementos', current_index')
       /\ (last.op \in Mutating /\ Succeeded(last) /\ last'.op = "redo")
            => (last'.ret = FALSE /\ history' = history)]_vars

\* A successful mutating call made from a state with something to redo.
C3_Witness ==
    /\ last.op \in Mutating
    /\ Succeeded(last)
    /\ pre.current_index < pre.length - 1
    /\ Len(mementos) >= 2

\* C4: a redo() right after an undo() that returned True returns True and
\* get_history() is again what it was before the undo.
C4_UndoRedoRoundTrip ==
    [][(last.op = "undo" /\ last.ret /\ last'.op = "redo")
          => (last'.ret /\ GetHistory(history') = pre.history)]_vars

\* The calls of calculate that fail in the arithmetic step: an unknown name,
\* a zero second operand of a division, modulus, percentage or root, a root
\* outside its domain.
ArithmeticFailure(c) ==
    \/ c[1] \notin OperationNames
    \/ c[1] \in {"divide", "modulus", "percent", "root", "int_divide"} /\ c[3] = 0
    \/ c[1] = "root" /\ (c[3] < 0 \/ (c[2] < 0 /\ c[3] % 2 = 0))

FailingCalls ==
    {c \in (OperationNames \cup {"bogus", ""}) \X {-8, -4, 0, 7, 10} \X {-3, -2, 0, 2, 3} :
        ArithmeticFailure(c)}

\* Each of these calls is refused by the factory or by the operation.
FailingCallsRaise ==
    \A c \in FailingCalls : Evaluate(c[1], c[2], c[3]).error # "none"

\* C5: a calculate that fails in the arithmetic step raises and leaves the
\* history, the snapshot list and the cursor as they were.
C5_FailedCalculateChangesNothing ==
    [][/\ FailingCallsRaise
       /\ \A c \in CalcInputs :
            (last'.op = "calculate" /\ ArithmeticFailure(c)
               /\ Calculate(c[1], c[2], c[3]))
            => ~Succeeded(last')
       /\ (last'.op = "calculate" /\ ~Succeeded(last'))
            => /\ history' = history
               /\ mementos' = mementos
               /\ current_index' = current_index
               /\ CanUndo(current_index') = CanUndo(current_index)]_vars

\* A failed calculate on an engine that holds records and a redo branch.
C5_Witness ==
    /\ last.op = "calculate"
    /\ ~Succeeded(last)
    /\ history # <<>>
    /\ CanRedo(mementos, current_index)

\* C6: a load_history that raises leaves the history as it was.
C6_FailedLoadLeavesHistory ==
    (last.op = "load_history" /\ ~Succeeded(last)) => history = pre.history

\* C7: after every call the history equals the snapshot at the cursor.
C7_HistoryIsSnapshotAtCursor ==
    GetHistory(history) = GetState(Index(mementos, current_index))

\* C8: undo() with can_undo() false returns False, takes no memento from the
\* caretaker and leaves history, snapshot list and cursor unchanged.
C8_UndoAtFirstSnapshot ==
    [][(last'.op = "undo" /\ ~CanUndo(current_index))
          => /\ last'.ret = FALSE
             /\ last'.memento = <<>>
             /\ history' = history
             /\ mementos' = mementos
             /\ current_index' = current_index]_vars

\* An undo refused after undoing back to the first snapshot.
C8_Witness ==
    /\ last.op = "undo"
    /\ last.ret = FALSE
    /\ current_index = 0
    /\ Len(mementos) >= 2

\* C9: redo() with can_redo() false returns False, takes no memento from the
\* caretaker and leaves history, snapshot list and cursor unchanged.
C9_RedoAtLastSnapshot ==
    [][(last'.op = "redo" /\ ~CanRedo(mementos, current_index))
          => /\ last'.ret = FALSE
             /\ last'.memento = <<>>
             /\ history' = history
             /\ mementos' = mementos
             /\ current_index' = current_index]_vars

\* A redo refused at the last of several snapshots.
C9_Witness ==
    /\ last.op = "redo"
    /\ last.ret = FALSE
    /\ current_index = Len(mementos) - 1
    /\ Len(mementos) >= 2

\* C10: the cursor of a caretaker is in -1..len(mementos)-1, and it is -1
\* only when there is no memento.
C10_CursorInRange ==
    /\ -1 <= current_index
    /\ current_index <= Len(mementos) - 1
    /\ current_index = -1 => mementos = <<>>

\* A caretaker undone back to the first of several mementos.
C10_Witness ==
    /\ last.op = "caretaker.undo"
    /\ current_index = 0
    /\ Len(mementos) >= 2

\* C11: can_undo() answers current_index > 0 and can_redo() answers
\* current_index < len(mementos) - 1; both answer False while the caretaker
\* holds at most one memento, and neither call changes the mementos or the
\* cursor.
C11_CanUndoCanRedoArePure ==
    [][/\ last'.op = "can_undo"
            => /\ last'.ret <=> current_index > 0
               /\ Len(mementos) <= 1 => ~last'.ret
               /\ mementos' = mementos
               /\ current_index' = current_index
       /\ last'.op = "can_redo"
            => /\ last'.ret <=> current_index < Len(mementos) - 1
               /\ Len(mementos) <= 1 => ~last'.ret
               /\ mementos' = mementos
               /\ current_index' = current_index]_vars

\* can_redo() answered True on the first of several mementos, where
\* can_undo() is False.
C11_Witness ==
    /\ last.op = "can_redo"
    /\ last.ret
    /\ current_index = 0
    /\ Len(mementos) >= 2

\* C12: right after construction the snapshot list is the one snapshot of the
\* empty history with the cursor at 0, can_undo() and can_redo() are false,
\* and an undo() or a redo() returns False.
C12_FreshEngine ==
    [][last.op = "__init__"
          => /\ mementos = <<CalculatorMemento(<<>>)>>
             /\ current_index = 0
             /\ ~CanUndo(current_index)
             /\ ~CanRedo(mementos, current_index)
             /\ last'.op \in {"undo", "redo"}
                  => (last'.ret = FALSE /\ history' = <<>>)]_vars

\* An undo refused on an engine that still holds only its initial snapshot.
C12_Witness ==
    /\ last.op = "undo"
    /\ last.ret = FALSE
    /\ pre.length = 1
    /\ pre.history = <<>>
    /\ mementos = <<CalculatorMemento(<<>>)>>

\* C13 (as stated): can_undo() is false right after construction and also
\* right after the first clear_history() of a session without calculations.
C13_NoUndoAfterFirstClear ==
    [][/\ last.op = "__init__" => ~CanUndo(current_index)
       /\ (last.op = "__init__" /\ last'.op = "clear_history")
            => ~CanUndo(current_index')]_vars

\* C13 (amended): can_undo() is false right after construction and true right
\* after a clear_history(); after the first clear_history() of a session in
\* which nothing was saved before, the cursor is at index 1.
C13_UndoAfterFirstClear ==
    [][/\ last.op = "__init__" => ~CanUndo(current_index)
       /\ last'.op = "clear_history" => CanUndo(current_index')
       /\ (last'.op = "clear_history" /\ Len(mementos) = 1)
            => current_index' = 1]_vars

\* The first clear_history() of a session that calculated nothing.
C13_Witness ==
    /\ last.op = "clear_history"
    /\ pre.length = 1
    /\ pre.history = <<>>
    /\ current_index = 1

\* C14: clear_history() leaves the history empty and pushes one snapshot of
\* the empty history, so can_undo() is true, and an undo() right after it
\* brings back the history that was there before the clear.
C14_ClearIsUndoable ==
    [][/\ last'.op = "clear_history"
            => /\ history' = <<>>
               /\ Len(mementos') = current_index + 2
               /\ GetState(Index(mementos', -1)) = <<>>
               /\ CanUndo(current_index')
       /\ (last.op = "clear_history" /\ last'.op = "undo")
            => (last'.ret /\ GetHistory(history') = pre.history)]_vars

\* The records a well-formed table holds, in file order.
LoadedRecords(file) ==
    [i \in 1..Len(file.rows) |-> FromDict(file.rows[i]).value]

\* C15: a load_history that does not raise replaces the history by the
\* records of the file in file order and pushes one snapshot of it, and an
\* undo() right after it returns True and brings back the history that was
\* there before the load.
C15_LoadIsUndoable ==
    [][/\ \A f \in Files :
            (f.kind = "table" /\ LoadHistory(f) /\ Succeeded(last'))
            => /\ history' = LoadedRecords(f)
               /\ Len(mementos') = current_index + 2
               /\ GetState(Index(mementos', -1)) = history'
       /\ (last.op = "load_history" /\ Succeeded(last) /\ last'.op = "undo")
            => (last'.ret /\ GetHistory(history') = pre.history)]_vars

\* The positions of the snapshot list whose memento is still in the list after
\* the step: a call that saves the state keeps those up to the cursor, every
\* other call keeps them all.
Kept ==
    IF last'.op \in Mutating /\ Succeeded(last') THEN 1..(current_index + 1)
    ELSE 1..Len(mementos)

\* C16: the content of a stored snapshot does not change while the snapshot
\* stays in the list, whatever the engine does and whatever a caller does to
\* a list it got from get_history() or get_state().
C16_SnapshotsAreImmutable ==
    [][\A i \in Kept :
          /\ i <= Len(mementos')
          /\ heap'[mementos'[i].state] = heap[mementos[i].state]]_vars

\* A caller changed a list it was handed while the engine, undone to its
\* first snapshot, holds several snapshots.
C16_Witness ==
    /\ last.op = "caller.mutate"
    /\ Len(mementos) >= 2
    /\ current_index = 0
    /\ heap[mementos[2].state] # <<>>

LastN(s, n) == SubSeq(s, Len(s) - n + 1, Len(s))

\* C18: with a capacity of at least 1, a ledger that started empty holds the
\* last min(n, capacity) of the n records added, in the order they were
\* added, and an add_calculation removes nothing or the oldest record only.
C18_LedgerKeepsLastRecords ==
    [][(last'.op = "add_calculation" /\ max_history_size >= 1)
          => /\ history' = LastN(added', Min(Len(added'), max_history_size))
             /\ \/ history' = Append(history, Index(added', -1))
                \/ history' = Append(Tail(history), Index(added', -1))]_vars

\* More records were added than the ledger can hold.
C18_Witness ==
    /\ last.op = "add_calculation"
    /\ max_history_size >= 2
    /\ Len(added) >= max_history_size + 2
    /\ added[1] # added[2]

\* C19: with capacity 0 an add_calculation raises nothing and leaves the
\* ledger empty.
C19_CapacityZeroStaysEmpty ==
    (max_history_size = 0 /\ last.op = "add_calculation")
        => (Succeeded(last) /\ GetHistory(history) = <<>>)

\* Several records were added to a ledger of capacity 0.
C19_Witness ==
    /\ max_history_size = 0
    /\ last.op = "add_calculation"
    /\ Len(added) >= 2

\* C20: add_calculation(None) raises and leaves the ledger as it was, and
\* None is never an entry of the history.
C20_NoneIsRejected ==
    /\ (last.op = "add_calculation" /\ Index(added, -1) = None)
          => (~Succeeded(last) /\ history = pre.history)
    /\ \A i \in 1..Len(history) : history[i] # None

\* C21: when a load or the restoration of an undo or a redo replaces the
\* history by more records than the capacity, the history ends up as the last
\* `capacity` of those records, in order.
C21_ReplacementRespectsCapacity ==
    [][/\ \A f \in Files :
            (f.kind = "table" /\ LoadHistory(f) /\ Succeeded(last'))
            => history' = LastN(LoadedRecords(f),
                                Min(Len(LoadedRecords(f)), max_history_size))
       /\ (last'.op \in {"undo", "redo"} /\ last'.ret)
            => LET supplied == GetState(last'.memento[1])
               IN history' = LastN(supplied, Min(Len(supplied), max_history_size))]_vars

\* C30: after every add_calculation the history is no longer than the
\* capacity, also when it was longer than the capacity before the call.
C30_AddCalculationFitsCapacity ==
    (last.op = "calculate" /\ Succeeded(last))
        => Len(GetHistory(history)) <= max_history_size

\* C22: get_recent(n) with n <= 0 returns an empty list, whatever the ledger
\* holds.
C22_GetRecentNonPositive ==
    (last.op = "get_recent" /\ last.count <= 0) => last.ret = <<>>

\* C28: get_recent(n) with n >= 1 returns the last min(n, s) of the s entries
\* of the ledger, in order, raises nothing and leaves the ledger as it was; on
\* an empty ledger it returns an empty list.
C28_GetRecentLastEntries ==
    [][(last'.op = "get_recent" /\ last'.count >= 1)
          => /\ last'.ret = LastN(history, Min(last'.count, Len(history)))
             /\ history = <<>> => last'.ret = <<>>
             /\ Succeeded(last')
             /\ history' = history]_vars

\* get_recent asked for fewer entries than a ledger of distinct records holds.
C28_Witness ==
    /\ last.op = "get_recent"
    /\ last.count >= 1
    /\ last.count < Len(history)
    /\ history[1] # history[2]

C26_UndoRedoFrame ==
    [][/\ (last'.op = "undo" /\ last'.ret)
            => (current_index' = current_index - 1 /\ mementos' = mementos)
       /\ (last'.op = "redo" /\ last'.ret)
            => (current_index' = current_index + 1 /\ mementos' = mementos)
       /\ (last'.op \in {"undo", "redo"} /\ ~last'.ret)
            => /\ current_index' = current_index
               /\ mementos' = mementos
               /\ history' = history]_vars

\* An undo that stepped back from the last of at least three snapshots.
C26_Witness ==
    /\ last.op = "undo"
    /\ last.ret
    /\ pre.length >= 3
    /\ pre.current_index = pre.length - 1
    /\ mementos[2] # mementos[3]

\* C27: an undo() followed by a redo() from a state where can_undo() is true,
\* and a redo() followed by an undo() from a state where can_redo() is true,
\* leave the history, the snapshot list and the cursor as they were before
\* the pair; so does any number of such pairs in a row.
C27_UndoRedoPairsAreNeutral ==
    [][/\ (last.op = "undo" /\ last.ret /\ last'.op = "redo")
            => /\ GetHistory(history') = pre.history
               /\ Len(mementos') = pre.length
               /\ mementos' = mementos
               /\ current_index' = pre.current_index
       /\ (last.op = "redo" /\ last.ret /\ last'.op = "undo")
            => /\ GetHistory(history') = pre.history
               /\ Len(mementos') = pre.length
               /\ mementos' = mementos
               /\ current_index' = pre.current_index]_vars

\* The calls of calculate that succeed and the record each leaves.
SuccessfulInputs ==
    {c \in CalcInputs : Evaluate(c[1], c[2], c[3]).error = "none"}

RecordOf(c) ==
    Calculation(Symbol(c[1]), c[2], c[3], Round(Evaluate(c[1], c[2], c[3]).value))

\* The engine right after calculate x and undo() on a fresh engine.
AfterCalculateAndUndo(x) ==
    /\ last.op = "undo"
    /\ last.ret
    /\ pre.history = <<RecordOf(x)>>
    /\ pre.length = 2
    /\ pre.current_index = 1
    /\ mementos = <<CalculatorMemento(<<>>), CalculatorMemento(<<RecordOf(x)>>)>>
    /\ current_index = 0

\* C23 (as stated): on a fresh engine, after calculate X, undo() and
\* calculate Y, redo() returns False and the history holds the records of X
\* and of Y, in that order.
C23_BranchKeepsBothRecords ==
    [][\A x \in SuccessfulInputs, y \in SuccessfulInputs :
          (AfterCalculateAndUndo(x) /\ Calculate(y[1], y[2], y[3]))
          => /\ ~CanRedo(mementos', current_index')
             /\ GetHistory(history') = <<RecordOf(x), RecordOf(y)>>]_vars

\* C23 (amended): on a fresh engine, after calculate X, undo() and
\* calculate Y, the history holds the record of Y alone (the undo took X
\* back), can_redo() is false, and a redo() returns False and leaves that
\* history.
C23_BranchKeepsNewRecord ==
    [][/\ \A x \in SuccessfulInputs, y \in SuccessfulInputs :
            (AfterCalculateAndUndo(x) /\ Calculate(y[1], y[2], y[3]))
            => /\ ~CanRedo(mementos', current_index')
               /\ GetHistory(history') = <<RecordOf(y)>>
       /\ (/\ last.op = "calculate"
           /\ Succeeded(last)
           /\ pre.history = <<>>
           /\ pre.length = 2
           /\ pre.current_index = 0
           /\ last'.op = "redo")
            => (last'.ret = FALSE /\ history' = history)]_vars

\* multiply 4 5 was calculated on an engine undone to its initial snapshot,
\* and replaced the branch that was there.
C23_Witness ==
    /\ last.op = "calculate"
    /\ last.result = 20
    /\ pre.history = <<>>
    /\ pre.length = 2
    /\ pre.current_index = 0
    /\ history = <<RecordOf(<<"multiply", 4, 5>>)>>
    /\ Len(mementos) = 2

\* The snapshot list of n calculations none of which evicted a record: the
\* snapshot at index i holds the first i records of the last snapshot.
UndoChain ==
    \A i \in 1..Len(mementos) :
        GetState(mementos[i]) = SliceTo(GetState(Index(mementos, -1)), i - 1)

\* C24: on a fresh engine after n calculations that fit the capacity, an
\* undo() with the cursor above 0 and a redo() with the cursor below n return
\* True, and the history is then the first records of the n calculated, as
\* many as the cursor says: n - k + j after k undos and j redos.
C24_UndosThenRedos ==
    [][(UndoChain /\ Len(mementos) - 1 <= max_history_size)
          => /\ (last'.op = "undo" /\ current_index > 0)
                  => /\ last'.ret
                     /\ current_index' = current_index - 1
                     /\ GetHistory(history') =
                          SliceTo(GetState(Index(mementos, -1)), current_index')
             /\ (last'.op = "redo" /\ current_index < Len(mementos) - 1)
                  => /\ last'.ret
                     /\ current_index' = current_index + 1
                     /\ GetHistory(history') =
                          SliceTo(GetState(Index(mementos, -1)), current_index')]_vars

\* Two calculations, two undos and one redo: the history is the first of the
\* two records.
C24_Witness ==
    /\ UndoChain
    /\ Len(mementos) = 3
    /\ GetState(mementos[3]) = <<RecordOf(<<"add", 5, 3>>), RecordOf(<<"multiply", 4, 5>>)>>
    /\ last.op = "redo"
    /\ last.ret
    /\ pre.current_index = 0
    /\ current_index = 1
    /\ history = <<RecordOf(<<"add", 5, 3>>)>>

-----------------------------------------------------------------------------
\* C25: when the arithmetic of calculate succeeds and an observer whose
\* update raises is registered, update is still called on every registered
\* observer, those after the raising one included, in registration order and
\* with the new record; calculate does not raise and returns the rounded
\* result; the new record is the last of the history and the snapshot pushed
\* for it is the current one.
C25_ObserverFailureIsolated ==
    [][\A c \in ObserverCalcInputs :
        LET r == Evaluate(c[1], c[2], c[3])
            calculation == Calculation(Symbol(c[1]), c[2], c[3], Round(r.value))
        IN (/\ Calculate(c[1], c[2], c[3])
            /\ r.error = "none"
            /\ \E i \in DOMAIN observers :
                   Update(observers[i], calculation).error # "none")
           => /\ Len(notified') = Len(observers)
              /\ \A i \in DOMAIN observers :
                    /\ notified'[i].observer = observers[i]
                    /\ notified'[i].calculation = calculation
              /\ last'.raised = "none"
              /\ last'.result = Round(r.value)
              /\ history' # <<>>
              /\ history'[Len(history')] = calculation
              /\ Len(mementos') = current_index + 2
              /\ current_index' = current_index + 1
              /\ GetState(mementos'[current_index' + 1]) = history'
    ]_vars

\* calculate has returned its result with a raising observer registered
\* before one that does not raise, and both were called.
C25_Witness ==
    /\ last.op = "calculate"
    /\ last.raised = "none"
    /\ last.result = 8
    /\ \E i, j \in DOMAIN observers :
          /\ i < j
          /\ observers[i] = "FaultyObserver"
          /\ observers[j] = "Observer"
          /\ Len(notified) = Len(observers)
          /\ notified[i].observer = "FaultyObserver"
          /\ notified[j].observer = "Observer"
    /\ history # <<>>
    /\ history[Len(history)] = Calculation("+", 5, 3, 8)

-----------------------------------------------------------------------------
\* The calls of the engine that notify nobody when they end as given.
Silent(call) ==
    \/ call.op \in {"undo", "redo", "clear_history", "load_history"}
    \/ call.op = "calculate" /\ call.raised # "none"

\* C31 as stated: on a successful calculate every registered observer gets
\* exactly one call of update, the calls are in registration order, carry the
\* new record and see the record in the history and its snapshot pushed;
\* every other call of the engine notifies nobody.
C31_EachObserverNotifiedOnce ==
    [][/\ (last'.op = "calculate" /\ last'.raised = "none")
          => /\ \A i \in DOMAIN observers :
                   Cardinality({k \in DOMAIN notified' :
                       notified'[k].observer = observers[i]}) = 1
             /\ \A k \in DOMAIN notified' :
                   /\ notified'[k].calculation = history'[Len(history')]
                   /\ notified'[k].history = history'
                   /\ notified'[k].snapshots = Len(mementos')
       /\ Silent(last') => notified' = <<>>
    ]_vars

\* C31 as amended: on a successful calculate update is called once for each
\* registration, in registration order (an observer registered twice is
\* called twice), with the new record, when the record is the last of the
\* history and the snapshot of that history is the current one; every other
\* call of the engine notifies nobody.
C31_NotifiedOncePerRegistration ==
    [][/\ (last'.op = "calculate" /\ last'.raised = "none")
          => /\ Len(notified') = Len(observers)
             /\ history' # <<>>
             /\ \A k \in DOMAIN notified' :
                   /\ notified'[k].observer = observers[k]
                   /\ notified'[k].calculation = history'[Len(history')]
                   /\ notified'[k].calculation.result = last'.result
                   /\ notified'[k].history = history'
                   /\ notified'[k].snapshots = Len(mementos')
                   /\ notified'[k].snapshots = pre'.current_index + 2
             /\ GetState(mementos'[Len(mementos')]) = history'
       /\ Silent(last') => notified' = <<>>
    ]_vars

\* A calculate has succeeded with the same observer registered twice, and
\* update was called for both registrations after the two default observers.
C31_Witness ==
    /\ last.op = "calculate"
    /\ last.raised = "none"
    /\ Len(observers) = 4
    /\ observers[3] = "Observer"
    /\ observers[4] = "Observer"
    /\ Len(notified) = 4
    /\ notified[1].observer = "LoggingObserver"
    /\ notified[3].observer = "Observer"
    /\ notified[4].observer = "Observer"
    /\ notified[4].history = history

-----------------------------------------------------------------------------
\* Calculator.undo and Calculator.redo as functions of the snapshot list and
\* the cursor: what the call returns and where it leaves the cursor.
UndoReturn(ms, idx) ==
    IF ~CanUndo(idx) THEN [ret |-> FALSE, current_index |-> idx]
    ELSE LET u == CaretakerUndo(ms, idx)
         IN [ret |-> u.memento # <<>>, current_index |-> u.current_index]

RedoReturn(ms, idx) ==
    IF ~CanRedo(ms, idx) THEN [ret |-> FALSE, current_index |-> idx]
    ELSE LET u == CaretakerRedo(ms, idx)
         IN [ret |-> u.memento # <<>>, current_index |-> u.current_index]

\* What n consecutive calls of undo, or of redo, return.
RECURSIVE UndoRun(_, _, _)
UndoRun(ms, idx, n) ==
    IF n = 0 THEN <<>>
    ELSE LET u == UndoReturn(ms, idx)
         IN <<u.ret>> \o UndoRun(ms, u.current_index, n - 1)

RECURSIVE RedoRun(_, _, _)
RedoRun(ms, idx, n) ==
    IF n = 0 THEN <<>>
    ELSE LET u == RedoReturn(ms, idx)
         IN <<u.ret>> \o RedoRun(ms, u.current_index, n - 1)

\* C32: in every state the engine reaches, with cursor i and L snapshots, i
\* consecutive calls of undo return True and the next returns False, and
\* L - 1 - i consecutive calls of redo return True and the next returns
\* False; each call of undo and of redo the engine makes returns and moves
\* the cursor as the first call of such a run.
C32_UndoRedoRunLengths ==
    [][/\ UndoRun(mementos', current_index', current_index' + 1)
             = [k \in 1..(current_index' + 1) |-> k <= current_index']
       /\ RedoRun(mementos', current_index', Len(mementos') - current_index')
             = [k \in 1..(Len(mementos') - current_index')
                   |-> k <= Len(mementos') - 1 - current_index']
       /\ last'.op = "undo"
             => /\ last'.ret = UndoReturn(mementos, current_index).ret
                /\ current_index' = UndoReturn(mementos, current_index).current_index
       /\ last'.op = "redo"
             => /\ last'.ret = RedoReturn(mementos, current_index).ret
                /\ current_index' = RedoReturn(mementos, current_index).current_index
    ]_vars

\* Two undos in a row have returned True from the last of three snapshots
\* and a third has returned False at the first snapshot.
C32_Witness ==
    /\ last.op = "undo"
    /\ ~last.ret
    /\ pre.current_index = 0
    /\ current_index = 0
    /\ Len(mementos) = 3
    /\ RedoRun(mementos, current_index, 3) = <<TRUE, TRUE, FALSE>>

-----------------------------------------------------------------------------
\* C33: in every state the engine reaches after construction there is at
\* least one snapshot, the cursor is at least 0 (never -1) and the first
\* snapshot is the empty history; an undo that returns True and leaves the
\* cursor at 0 leaves the history empty.
C33_FirstSnapshotStays ==
    [][/\ Len(mementos') >= 1
       /\ current_index' >= 0
       /\ current_index' <= Len(mementos') - 1
       /\ mementos'[1] = mementos[1]
       /\ GetState(mementos'[1]) = <<>>
       /\ (last'.op = "undo" /\ last'.ret /\ current_index' = 0)
             => history' = <<>>
    ]_vars

\* After two changes of the history, undo has returned True twice and the
\* engine is back on the first snapshot with an empty history.
C33_Witness ==
    /\ last.op = "undo"
    /\ last.ret
    /\ current_index = 0
    /\ pre.history # <<>>
    /\ Len(mementos) = 3
    /\ GetState(mementos[2]) # <<>>
    /\ GetState(mementos[3]) # <<>>
    /\ history = <<>>

-----------------------------------------------------------------------------
-----------------------------------------------------------------------------
\* C35: a load_history that raises, on a malformed row or an unreadable
\* file, leaves the snapshot list and the cursor as they were, and can_undo()
\* and can_redo() answer as before the call.
C35_FailedLoadPushesNoSnapshot ==
    [][(last'.op = "load_history" /\ last'.raised # "none")
          => /\ last'.raised = "FileOperationError"
             /\ mementos' = mementos
             /\ current_index' = current_index
             /\ CanUndo(current_index') = CanUndo(current_index)
             /\ CanRedo(mementos', current_index') = CanRedo(mementos, current_index)
    ]_vars

\* A load has raised on an engine with a redo branch: both can_undo() and
\* can_redo() are still true.
C35_Witness ==
    /\ last.op = "load_history"
    /\ last.raised = "FileOperationError"
    /\ Len(mementos) = 3
    /\ pre.length = 3
    /\ current_index = 1
    /\ pre.current_index = 1
    /\ CanUndo(current_index)
    /\ CanRedo(mementos, current_index)

-----------------------------------------------------------------------------
\* The files load_from_csv returns from without reading a row: no file at
\* the path, or a file pandas finds empty.
AbsentFiles == {f \in Files : f.kind \in {"missing", "empty"}}

-----------------------------------------------------------------------------
\* C37: read as two stacks, the undo stack being the mementos up to the
\* cursor (its top the memento at the cursor) and the redo stack the mementos
\* after it (its top the one next to the cursor), the caretaker does what a
\* two-stack undo/redo does: save pushes on the undo stack and empties the
\* redo stack; undo, when the undo stack holds more than one memento, moves
\* its top to the redo stack and returns the new top, and otherwise returns
\* None and changes nothing; redo, when the redo stack is not empty, moves its
\* top to the undo stack and returns it, and otherwise returns None and
\* changes nothing; can_undo and can_redo answer whether undo, or redo, has
\* something to move.
C37_TwoStackEquivalence ==
    [][LET undoStack == SliceTo(mementos, current_index + 1)
           redoStack == SliceFrom(mementos, current_index + 1)
           undoStackAfter == SliceTo(mementos', current_index' + 1)
           redoStackAfter == SliceFrom(mementos', current_index' + 1)
           canUndo == Len(undoStack) > 1
           canRedo == redoStack # <<>>
       IN /\ last'.op = "save"
                => /\ undoStackAfter = Append(undoStack, last'.memento[1])
                   /\ redoStackAfter = <<>>
          /\ last'.op = "caretaker.undo"
                => IF canUndo
                   THEN /\ undoStackAfter = SubSeq(undoStack, 1, Len(undoStack) - 1)
                        /\ redoStackAfter = <<undoStack[Len(undoStack)]>> \o redoStack
                        /\ last'.memento = <<undoStack[Len(undoStack) - 1]>>
                        /\ last'.ret
                   ELSE /\ undoStackAfter = undoStack
                        /\ redoStackAfter = redoStack
                        /\ last'.memento = <<>>
                        /\ ~last'.ret
          /\ last'.op = "caretaker.redo"
                => IF canRedo
                   THEN /\ undoStackAfter = Append(undoStack, Head(redoStack))
                        /\ redoStackAfter = Tail(redoStack)
                        /\ last'.memento = <<Head(redoStack)>>
                        /\ last'.ret
                   ELSE /\ undoStackAfter = undoStack
                        /\ redoStackAfter = redoStack
                        /\ last'.memento = <<>>
                        /\ ~last'.ret
          /\ last'.op = "can_undo"
                => /\ last'.ret = canUndo
                   /\ undoStackAfter = undoStack
                   /\ redoStackAfter = redoStack
          /\ last'.op = "can_redo"
                => /\ last'.ret = canRedo
                   /\ undoStackAfter = undoStack
                   /\ redoStackAfter = redoStack
    ]_vars

\* After three saves and two undos, a redo has moved one memento back: two
\* mementos on the undo stack and one left on the redo stack.
C37_Witness ==
    /\ last.op = "caretaker.redo"
    /\ last.ret
    /\ Len(mementos) = 3
    /\ pre.current_index = 0
    /\ current_index = 1
    /\ last.memento = <<mementos[2]>>
    /\ mementos[2] # mementos[3]
    /\ SliceFrom(mementos, current_index + 1) = <<mementos[3]>>

-----------------------------------------------------------------------------
(* REPL: the undo and redo commands *)

\* A command of the REPL: what the call of the Calculator returned and the
\* line the handler printed.
Command(op, ret, printed) ==
    [op |-> op, ret |-> ret, result |-> 0, raised |-> "none", memento |-> <<>>,
     printed |-> printed]

\* _handle_undo: Calculator.undo() is called and its return value dropped;
\* undo() raises no HistoryError, so the line after the call always runs.
HandleUndo ==
    LET u == UndoReturn(mementos, current_index)
    IN /\ pre' = Snapshot
       /\ UNCHANGED <<added, heap, held, observers>>
       /\ notified' = <<>>
       /\ UNCHANGED <<max_history_size, mementos>>
       /\ current_index' = u.current_index
       /\ history' = IF u.ret THEN GetState(Index(mementos, u.current_index))
                     ELSE history
       /\ last' = Command("repl.undo", u.ret, "Undid last calculation.")

\* _handle_redo, likewise
HandleRedo ==
    LET u == RedoReturn(mementos, current_index)
    IN /\ pre' = Snapshot
       /\ UNCHANGED <<added, heap, held, observers>>
       /\ notified' = <<>>
       /\ UNCHANGED <<max_history_size, mementos>>
       /\ current_index' = u.current_index
       /\ history' = IF u.ret THEN GetState(Index(mementos, u.current_index))
                     ELSE history
       /\ last' = Command("repl.redo", u.ret, "Redid last calculation.")

\* The REPL of a fresh Calculator whose user calculates, undoes and redoes.
InitRepl == Init

NextRepl ==
    \/ \E c \in WindowCalcInputs :
          CalculateWithin(MaxCapacity + 3, c[1], c[2], c[3])
    \/ HandleUndo
    \/ HandleRedo

SpecRepl == InitRepl /\ [][NextRepl]_vars

\* C38: the undo command has printed "Undid last calculation." only when
\* Calculator.undo() returned True, and the redo command "Redid last
\* calculation." only when Calculator.redo() returned True.
C38_SuccessMessageOnlyOnSuccess ==
    /\ (last.op = "repl.undo" /\ last.printed = "Undid last calculation.")
          => last.ret
    /\ (last.op = "repl.redo" /\ last.printed = "Redid last calculation.")
          => last.ret

====
